---- MODULE Spec2Model ----
(***************************************************************************)
(* Token passing over an n-dimensional hypercube of processes connected by *)
(* pipes (src/hypercube.c, main in src/unnamed/part_000).                  *)
(*                                                                         *)
(* The coordinator creates n*2^n pipes, forks 2^n workers, installs its    *)
(* signal handler, closes its pipe descriptors and waits for the workers.  *)
(* Each worker keeps 2n descriptors, closes the others and runs passToken. *)
(*                                                                         *)
(* File descriptors are numbers, as in the code: the sweep of lines        *)
(* 110-128 compares descriptor numbers.  A pipe is a kernel buffer with    *)
(* the set of processes that hold each end open; end-of-file and SIGPIPE   *)
(* follow from those sets.  signal() has the BSD semantics of glibc: the   *)
(* handler stays installed, runs with its signal blocked, and an           *)
(* interrupted waitpid is restarted.                                       *)
(***************************************************************************)
EXTENDS Integers, Sequences, FiniteSets, TLC

VARIABLES argv, exitStatus, n, coordPc, loopI, nbPipes, nbProcesses, pipes, childs,
          coordFds, n_sigusr1, disposition,
          wpc, fds, connectedPipes, token, readfds, started, file, stopped,
          chan, sigint, status, order, toggles, kills, rcvd, multi,
          waitSignals, unread, pausedAt

vars == <<argv, exitStatus, n, coordPc, loopI, nbPipes, nbProcesses, pipes, childs,
          coordFds, n_sigusr1, disposition,
          wpc, fds, connectedPipes, token, readfds, started, file, stopped,
          chan, sigint, status, order, toggles, kills, rcvd, multi,
          waitSignals, unread, pausedAt>>

coordVars == <<coordPc, loopI, nbPipes, nbProcesses, pipes, childs,
               coordFds, n_sigusr1, disposition>>
workerVars == <<wpc, fds, connectedPipes, token, readfds, started, file,
                status>>
(* History variables: the log entries of all workers in the order they  *)
(* were written, the signals counted, the last token received, whether a *)
(* worker ever saw several read ends ready at once, whether a worker     *)
(* left a ready read end with a token unread, the length of the global  *)
(* log at the last suspension (until the first hop after it is over).    *)
ghostVars == <<order, toggles, kills, rcvd, multi, waitSignals, unread,
               pausedAt>>

(* Bounds of the exploration. *)
MaxDim == 2
MaxToken == 4
MaxToggles == 2
MaxKills == 1

(* The first descriptor pipe() can return: 0, 1 and 2 are the standard streams. *)
FirstFd == 3

Dims == 1..MaxDim

(* ------------------------------------------------------------------ *)
(* Integer helpers: the C operators of the source.                      *)

(* 1 << j *)
Shl(j) == 2^j

(* a ^ b on non-negative integers *)
RECURSIVE Xor(_, _)
Xor(a, b) ==
    IF a = 0 /\ b = 0 THEN 0
    ELSE (((a % 2) + (b % 2)) % 2) + (2 * Xor(a \div 2, b \div 2))

RECURSIVE BitCount(_)
BitCount(a) == IF a = 0 THEN 0 ELSE (a % 2) + BitCount(a \div 2)

(* ------------------------------------------------------------------ *)
(* The command line.  argv holds the arguments after the program name,   *)
(* each a sequence of characters.                                        *)

Digits == <<"0", "1", "2", "3", "4", "5", "6", "7", "8", "9">>
IsDigit(ch) == \E d \in DOMAIN Digits : Digits[d] = ch
DigitVal(ch) == (CHOOSE d \in DOMAIN Digits : Digits[d] = ch) - 1

(* atoi: the value of the leading decimal digits, 0 when there are none  *)
(* (leading blanks and a sign are not among the inputs)                  *)
RECURSIVE atoiFrom(_, _)
atoiFrom(s, acc) ==
    IF s = <<>> \/ ~IsDigit(Head(s)) THEN acc
    ELSE atoiFrom(Tail(s), acc * 10 + DigitVal(Head(s)))
atoi(s) == atoiFrom(s, 0)

(* The decimal numeral of a dimension below 10 *)
Decimal(k) == <<Digits[k + 1]>>

(* An argument that is a non-negative integer: digits only, at least one *)
IsNumeral(s) == s # <<>> /\ \A k \in DOMAIN s : IsDigit(s[k])

(* The command lines explored: no argument, one dimension, a dimension   *)
(* followed by a letter, two arguments.                                  *)
ArgLists ==
    {<<>>}
        \cup {<<Decimal(k)>> : k \in Dims}
        \cup {<<Decimal(1) \o <<"x">>>>, <<Decimal(1), Decimal(1)>>}

argc == Len(argv) + 1

(* ------------------------------------------------------------------ *)
(* The sets the state ranges over.                                       *)

Procs == DOMAIN wpc
Chans == 0..(nbPipes - 1)
Edges == 0..(n - 1)

(* The neighbour computed by adding the bit instead of flipping it. *)
neighbourAdd(i, j) == (i + Shl(j)) % Shl(n)

(* int neighbour = i ^ (1 << j); *)
neighbour(i, j) == Xor(i, Shl(j))

(* pipe(pipes[i]) in a process whose lowest free descriptor is FirstFd+2i *)
PipeFds(c) == <<FirstFd + 2 * c, FirstFd + 2 * c + 1>>

(* The two ends of the c-th pipe of the table: pipes[c][0] and pipes[c][1]. *)
ReadFd(c) == PipeFds(c)[1]
WriteFd(c) == PipeFds(c)[2]

(* The channel a descriptor of the table refers to. *)
ChanOfFd(f) == (f - FirstFd) \div 2

Alive(i) == wpc[i] \notin {"unborn", "exited"}

(* Processes that hold an end of channel c open. *)
WorkerReaders(c) == {i \in Procs : ReadFd(c) \in fds[i]}
WorkerWriters(c) == {i \in Procs : WriteFd(c) \in fds[i]}
HasReader(c) == ReadFd(c) \in coordFds \/ WorkerReaders(c) # {}
HasWriter(c) == WriteFd(c) \in coordFds \/ WorkerWriters(c) # {}

(* ------------------------------------------------------------------ *)
Init ==
    /\ argv \in ArgLists
    /\ exitStatus = -1
    /\ n = 0
    /\ coordPc = "main"
    /\ loopI = 0
    /\ nbPipes = 0
    /\ nbProcesses = 0
    /\ pipes = <<>>
    /\ childs = <<>>
    /\ coordFds = {}
    /\ n_sigusr1 = 1
    /\ disposition = [s \in {"SIGUSR1", "SIGINT"} |-> "SIG_DFL"]
    /\ wpc = <<>>
    /\ fds = <<>>
    /\ connectedPipes = <<>>
    /\ token = <<>>
    /\ readfds = <<>>
    /\ started = <<>>
    /\ file = <<>>
    /\ stopped = <<>>
    /\ chan = <<>>
    /\ order = <<>>
    /\ toggles = 0
    /\ kills = 0
    /\ rcvd = [by |-> -1, dim |-> -1, chan |-> -1, from |-> -1, fromDim |-> -1,
               val |-> -1]
    /\ multi = <<>>
    /\ waitSignals = 0
    /\ unread = <<>>
    /\ pausedAt = -1
    /\ sigint = <<>>
    /\ status = <<>>

(* ------------------------------------------------------------------ *)
(* Endpoint partitioning of a worker, lines 93-128.                      *)

(* The two table indices exchanged: the read end taken at the            *)
(* neighbour's index and the write end at the worker's own.              *)
ConnectedPipesSwapped(i) ==
    [k \in 0..(2 * n - 1) |->
        IF k % 2 = 0
        THEN pipes[Xor(i, Shl(k \div 2)) * n + (k \div 2)][1]
        ELSE pipes[i * n + (k \div 2)][2]]

(* connectedPipes[2*j] = pipes[i*n+j][0];                                *)
(* connectedPipes[2*j+1] = pipes[neighbour*n+j][1];   (0-based array)    *)
ConnectedPipesOf(i) ==
    [k \in 0..(2 * n - 1) |->
        IF k % 2 = 0
        THEN pipes[i * n + (k \div 2)][1]
        ELSE pipes[neighbour(i, k \div 2) * n + (k \div 2)][2]]

(* Only the neighbour's read end closed: line 105 left out. *)
ClosedUnusedReadOnly(i) == {pipes[Xor(i, Shl(j)) * n + j][1] : j \in Edges}

(* close(pipes[i*n+j][1]); close(pipes[neighbour*n+j][0]); lines 105-106 *)
ClosedUnused(i) ==
    {pipes[i * n + j][2] : j \in Edges}
        \cup {pipes[neighbour(i, j) * n + j][1] : j \in Edges}

(* needClose of lines 112-121: no end of pipe c is a retained descriptor *)
NeedClose(i, c) ==
    \A k \in 0..(2 * n - 1) :
        /\ pipes[c][1] # ConnectedPipesOf(i)[k]
        /\ pipes[c][2] # ConnectedPipesOf(i)[k]

(* No sweep: the pipes of the other workers stay open. *)
ClosedSweepNone(i) == {}

(* close(pipes[j][0]); close(pipes[j][1]); for every j with needClose *)
ClosedSweep(i) ==
    UNION {{pipes[c][1], pipes[c][2]} : c \in {d \in Chans : NeedClose(i, d)}}

(* The read descriptors the worker waits on: connectedPipes[2*i], setReadfds *)
setReadfds(i) == {connectedPipes[i][2 * j] : j \in Edges}

(* ------------------------------------------------------------------ *)
(* The coordinator.                                                      *)

CoordAlive == coordPc \notin {"done", "killed"}

(* main, lines 40-49 of part_000: a wrong number of arguments prints the *)
(* usage and returns 1; otherwise n = atoi(argv[1]).  The records of the *)
(* 2^n workers to come start here, all unborn.                           *)
main ==
    /\ coordPc = "main"
    /\ IF argc # 2
       THEN /\ exitStatus' = 1
            /\ coordPc' = "done"
            /\ UNCHANGED <<n, workerVars, stopped, sigint, multi, unread>>
       ELSE /\ n' = atoi(argv[1])
            /\ coordPc' = "createPipes"
            /\ wpc' = [i \in 0..(Shl(atoi(argv[1])) - 1) |-> "unborn"]
            /\ fds' = [i \in 0..(Shl(atoi(argv[1])) - 1) |-> {}]
            /\ connectedPipes' = [i \in 0..(Shl(atoi(argv[1])) - 1) |-> <<>>]
            /\ token' = [i \in 0..(Shl(atoi(argv[1])) - 1) |-> 0]
            /\ readfds' = [i \in 0..(Shl(atoi(argv[1])) - 1) |-> {}]
            /\ started' = [i \in 0..(Shl(atoi(argv[1])) - 1) |-> FALSE]
            /\ file' = [i \in 0..(Shl(atoi(argv[1])) - 1) |-> <<>>]
            /\ status' = [i \in 0..(Shl(atoi(argv[1])) - 1) |-> "none"]
            /\ stopped' = [i \in 0..(Shl(atoi(argv[1])) - 1) |-> FALSE]
            /\ sigint' = [i \in 0..(Shl(atoi(argv[1])) - 1) |-> FALSE]
            /\ multi' = [i \in 0..(Shl(atoi(argv[1])) - 1) |-> FALSE]
            /\ unread' = [i \in 0..(Shl(atoi(argv[1])) - 1) |-> FALSE]
            /\ UNCHANGED exitStatus
    /\ UNCHANGED <<argv, loopI, nbPipes, nbProcesses, pipes, childs, coordFds,
                   n_sigusr1, disposition, chan, order, toggles, kills, rcvd,
                   waitSignals, pausedAt>>

(* createPipes(n), called from main *)
createPipes ==
    /\ coordPc = "createPipes"
    /\ nbPipes' = Shl(n) * n
    /\ pipes' = [c \in 0..(Shl(n) * n - 1) |-> PipeFds(c)]
    /\ coordFds' = UNION {{PipeFds(c)[1], PipeFds(c)[2]} : c \in 0..(Shl(n) * n - 1)}
    /\ chan' = [c \in 0..(Shl(n) * n - 1) |-> <<>>]
    /\ coordPc' = "createProcesses"
    /\ UNCHANGED <<argv, exitStatus, n, loopI, nbProcesses, childs, n_sigusr1, disposition,
                   workerVars, stopped, sigint, ghostVars>>

(* createProcesses(n), lines 78-80 *)
createProcesses ==
    /\ coordPc = "createProcesses"
    /\ nbProcesses' = Shl(n)
    /\ childs' = [i \in 0..(Shl(n) - 1) |-> -1]
    /\ loopI' = 0
    /\ coordPc' = "fork"
    /\ UNCHANGED <<argv, exitStatus, n, nbPipes, pipes, coordFds, n_sigusr1, disposition,
                   workerVars, stopped, sigint, chan, ghostVars>>

(* The coordinator closes the new child's own pipes right after the     *)
(* fork, so the children forked later do not inherit them.               *)
ForkThenClose ==
    /\ coordPc = "fork"
    /\ loopI < nbProcesses
    /\ wpc' = [wpc EXCEPT ![loopI] = "forked"]
    /\ fds' = [fds EXCEPT ![loopI] = coordFds]
    /\ childs' = [childs EXCEPT ![loopI] = loopI]
    /\ loopI' = loopI + 1
    /\ coordFds' = coordFds \ UNION {{pipes[loopI * n + j][1],
                                       pipes[loopI * n + j][2]} : j \in Edges}
    /\ UNCHANGED <<argv, exitStatus, n, coordPc, nbPipes, nbProcesses, pipes,
                   n_sigusr1, disposition, connectedPipes, token, readfds,
                   started, file, status, stopped, sigint, chan, ghostVars>>

(* One iteration of the spawn loop, lines 82-91 and 146-149: the child   *)
(* starts with a copy of the coordinator's descriptors.                  *)
Fork ==
    /\ coordPc = "fork"
    /\ loopI < nbProcesses
    /\ wpc' = [wpc EXCEPT ![loopI] = "forked"]
    /\ fds' = [fds EXCEPT ![loopI] = coordFds]
    /\ childs' = [childs EXCEPT ![loopI] = loopI]
    /\ loopI' = loopI + 1
    /\ UNCHANGED <<argv, exitStatus, n, coordPc, nbPipes, nbProcesses, pipes, coordFds,
                   n_sigusr1, disposition, connectedPipes, token, readfds,
                   started, file, status, stopped, sigint, chan, ghostVars>>

(* signal(SIGUSR1, handler); line 152 *)
InstallHandler ==
    /\ coordPc = "fork"
    /\ loopI = nbProcesses
    /\ disposition' = [disposition EXCEPT !["SIGUSR1"] = "handler"]
    /\ coordPc' = "closePipes"
    /\ UNCHANGED <<argv, exitStatus, n, loopI, nbPipes, nbProcesses, pipes, childs, coordFds,
                   n_sigusr1, workerVars, stopped, sigint, chan, ghostVars>>

(* The coordinator closes both ends of every pipe, lines 155-159 *)
ClosePipes ==
    /\ coordPc = "closePipes"
    /\ coordFds' = coordFds \ UNION {{pipes[c][1], pipes[c][2]} : c \in Chans}
    /\ coordPc' = "waitChild"
    /\ loopI' = 0
    /\ UNCHANGED <<argv, exitStatus, n, nbPipes, nbProcesses, pipes, childs, n_sigusr1,
                   disposition, workerVars, stopped, sigint, chan, ghostVars>>

(* waitpid(childs[i], &state, 0) returns once child i has terminated *)
waitChild ==
    /\ coordPc = "waitChild"
    /\ loopI < nbProcesses
    /\ wpc[childs[loopI]] = "exited"
    /\ loopI' = loopI + 1
    /\ UNCHANGED <<argv, exitStatus, n, coordPc, nbPipes, nbProcesses, pipes, childs, coordFds,
                   n_sigusr1, disposition, workerVars, stopped, sigint, chan,
                   ghostVars>>

(* freeMemory() after waitChild() returned, then exit(0) in main *)
freeMemory ==
    /\ coordPc = "waitChild"
    /\ loopI = nbProcesses
    /\ pipes' = <<>>
    /\ childs' = <<>>
    /\ coordPc' = "done"
    /\ exitStatus' = 0
    /\ UNCHANGED <<argv, n, loopI, nbPipes, nbProcesses, coordFds, n_sigusr1,
                   disposition, workerVars, stopped, sigint, chan, ghostVars>>

(* ------------------------------------------------------------------ *)
(* Signals delivered to the coordinator.                                 *)

Registered(i) == \E k \in 0..(nbProcesses - 1) : childs[k] = i

(* The loops of lines 329 and 337 start at the second child: the first  *)
(* is neither stopped nor continued.                                     *)
handlerSkipsFirst(signum) ==
    IF signum = "SIGUSR1"
    THEN /\ stopped' = [i \in Procs |->
                IF Registered(i) /\ Alive(i) /\ i # childs[0]
                THEN n_sigusr1 = 1 ELSE stopped[i]]
         /\ n_sigusr1' = 1 - n_sigusr1
         /\ toggles' = toggles + 1
         /\ waitSignals' = IF coordPc = "waitChild" THEN waitSignals + 1
                           ELSE waitSignals
         /\ pausedAt' = IF n_sigusr1 = 1 THEN Len(order) ELSE pausedAt
         /\ UNCHANGED sigint
    ELSE /\ sigint' = [i \in Procs |->
                IF Registered(i) /\ Alive(i) THEN TRUE ELSE sigint[i]]
         /\ UNCHANGED <<stopped, n_sigusr1, toggles, waitSignals, pausedAt>>

(* The handler without line 343: the flag is never flipped. *)
handlerNoFlip(signum) ==
    IF signum = "SIGUSR1"
    THEN /\ stopped' = [i \in Procs |->
                IF Registered(i) /\ Alive(i) THEN n_sigusr1 = 1 ELSE stopped[i]]
         /\ n_sigusr1' = n_sigusr1
         /\ toggles' = toggles + 1
         /\ waitSignals' = IF coordPc = "waitChild" THEN waitSignals + 1
                           ELSE waitSignals
         /\ pausedAt' = IF n_sigusr1 = 1 THEN Len(order) ELSE pausedAt
         /\ UNCHANGED sigint
    ELSE /\ sigint' = [i \in Procs |->
                IF Registered(i) /\ Alive(i) THEN TRUE ELSE sigint[i]]
         /\ UNCHANGED <<stopped, n_sigusr1, toggles, waitSignals, pausedAt>>

(* handler(signum), lines 323-353.  kill() on a terminated child has no  *)
(* effect; SIGINT stays pending in a child until the child runs.         *)
handler(signum) ==
    IF signum = "SIGUSR1"
    THEN /\ stopped' = [i \in Procs |->
                IF Registered(i) /\ Alive(i) THEN n_sigusr1 = 1 ELSE stopped[i]]
         /\ n_sigusr1' = 1 - n_sigusr1
         /\ toggles' = toggles + 1
         /\ waitSignals' = IF coordPc = "waitChild" THEN waitSignals + 1
                           ELSE waitSignals
         /\ pausedAt' = IF n_sigusr1 = 1 THEN Len(order) ELSE pausedAt
         /\ UNCHANGED sigint
    ELSE /\ sigint' = [i \in Procs |->
                IF Registered(i) /\ Alive(i) THEN TRUE ELSE sigint[i]]
         /\ UNCHANGED <<stopped, n_sigusr1, toggles, waitSignals, pausedAt>>

(* Without SA_RESTART: waitpid returns -1 with EINTR, the result is not  *)
(* looked at and the loop goes on to the next child.                     *)
AfterHandlerEINTR ==
    loopI' = IF coordPc = "waitChild" /\ loopI < nbProcesses
             THEN loopI + 1 ELSE loopI

(* signal() installs the handler with SA_RESTART: when the handler       *)
(* returns, the waitpid of line 319 is restarted for the same child      *)
AfterHandler == loopI' = loopI

(* A signal reaches the coordinator: the installed handler runs, or the  *)
(* default disposition terminates the process and closes its descriptors *)
Signal(signum) ==
    /\ CoordAlive
    /\ signum = "SIGUSR1" => toggles < MaxToggles
    /\ IF disposition[signum] = "handler"
       THEN /\ handler(signum)
            /\ AfterHandler
            /\ UNCHANGED <<coordPc, coordFds>>
       ELSE /\ coordPc' = "killed"
            /\ coordFds' = {}
            /\ UNCHANGED <<loopI, stopped, n_sigusr1, toggles, sigint,
                           waitSignals, pausedAt>>
    /\ UNCHANGED <<argv, exitStatus, n, nbPipes, nbProcesses, pipes, childs,
                   disposition, workerVars, chan, order, kills, rcvd, multi,
                   unread>>

(* ------------------------------------------------------------------ *)
(* The workers.                                                          *)

Runs(i) == Alive(i) /\ ~stopped[i]

(* The worker closes what it does not use, lines 93-128 *)
Partition(i) ==
    /\ wpc[i] = "forked"
    /\ Runs(i)
    /\ connectedPipes' = [connectedPipes EXCEPT ![i] = ConnectedPipesOf(i)]
    /\ fds' = [fds EXCEPT ![i] = (fds[i] \ ClosedUnused(i)) \ ClosedSweep(i)]
    /\ wpc' = [wpc EXCEPT ![i] = "passToken"]
    /\ UNCHANGED <<argv, exitStatus, n, coordVars, token, readfds, started, file, status,
                   stopped, sigint, chan, ghostVars>>

(* The entry of the log file a worker appends: "token: %d",              *)
(* "first received token: %d" or "Token: %d, Time : %ld"                 *)
Entry(kind, t) == [kind |-> kind, token |-> t]

(* The value written is one behind the value logged. *)
MsgBehind(t, i, j) == [val |-> t - 1, from |-> i, dim |-> j]

(* What a write puts in the pipe: the int val.  from and dim record the  *)
(* writer and the dimension it chose; they are history, not bytes.       *)
Msg(t, i, j) == [val |-> t, from |-> i, dim |-> j]

(* Every worker seeds. *)
IsSeederAny(i) == TRUE

(* if (id == 0), line 209 *)
IsSeeder(i) == i = 0

(* The token forwarded as it was read. *)
NotIncremented(t) == t

(* token++, lines 211 and 240 *)
Incremented(t) == t + 1

(* The write returns without anything reaching the pipe. *)
WriteLost(i, pipe_index, t) ==
    /\ wpc' = [wpc EXCEPT ![i] = "select"]
    /\ pausedAt' = IF Len(order') > pausedAt THEN -1 ELSE pausedAt
    /\ UNCHANGED <<chan, fds, status>>

(* write(connectedPipes[2*pipe_index+1], &token, sizeof(token)): the     *)
(* token is buffered in the pipe; if no process has the read end open    *)
(* the writer gets SIGPIPE and terminates.                               *)
Write(i, pipe_index, t) ==
    LET c == ChanOfFd(connectedPipes[i][2 * pipe_index + 1]) IN
    IF HasReader(c)
    THEN /\ chan' = [chan EXCEPT ![c] = Append(chan[c], Msg(t, i, pipe_index))]
         /\ wpc' = [wpc EXCEPT ![i] = "select"]
         /\ pausedAt' = IF Len(order') > pausedAt THEN -1 ELSE pausedAt
         /\ UNCHANGED <<fds, status>>
    ELSE /\ wpc' = [wpc EXCEPT ![i] = "exited"]
         /\ fds' = [fds EXCEPT ![i] = {}]
         /\ status' = [status EXCEPT ![i] = "SIGPIPE"]
         /\ UNCHANGED <<chan, pausedAt>>

(* passToken up to the loop, lines 180-225: vertex 0 creates the token,  *)
(* logs it and writes it to a random neighbour.  The sprintf of line 198 *)
(* writes 4 bytes more than line 197 allocated; the request is n+3 bytes *)
(* and glibc hands out at least 24 usable bytes, so for every n whose    *)
(* pipes can be created the write stays inside the block and the open    *)
(* succeeds.                                                             *)
PassTokenStart(i) ==
    /\ wpc[i] = "passToken"
    /\ Runs(i)
    /\ IF IsSeeder(i)
       THEN /\ token' = [token EXCEPT ![i] = Incremented(token[i])]
            /\ started' = [started EXCEPT ![i] = TRUE]
            /\ file' = [file EXCEPT ![i] =
                          Append(file[i], Entry("seed", Incremented(token[i])))]
            /\ order' = Append(order, [id |-> i, kind |-> "seed",
                                       token |-> Incremented(token[i])])
            /\ \E pipe_index \in Edges :
                  Write(i, pipe_index, Incremented(token[i]))
       ELSE /\ wpc' = [wpc EXCEPT ![i] = "select"]
            /\ UNCHANGED <<token, started, file, order, chan, fds, status,
                           pausedAt>>
    /\ UNCHANGED <<argv, exitStatus, n, coordVars, connectedPipes, readfds,
                   stopped, sigint, toggles, kills, rcvd, multi, waitSignals,
                   unread>>

(* select reports a read end only when data is buffered in it. *)
ReadyOnData(f) == chan[ChanOfFd(f)] # <<>>

(* A read end is ready when data is buffered or every write end is closed *)
Ready(f) == chan[ChanOfFd(f)] # <<>> \/ ~HasWriter(ChanOfFd(f))

(* select(nfds+1, &readfds, NULL, NULL, NULL) > 0, line 227 *)
Select(i) ==
    /\ wpc[i] = "select"
    /\ Runs(i)
    /\ {f \in setReadfds(i) : Ready(f)} # {}
    /\ readfds' = [readfds EXCEPT ![i] = {f \in setReadfds(i) : Ready(f)}]
    /\ multi' = [multi EXCEPT ![i] =
                    multi[i] \/ Cardinality({f \in setReadfds(i) : Ready(f)}) > 1]
    /\ wpc' = [wpc EXCEPT ![i] = "read"]
    /\ UNCHANGED <<argv, exitStatus, n, coordVars, fds, connectedPipes,
                   token, started, file, status, stopped, sigint, chan, order,
                   toggles, kills, rcvd, waitSignals, unread, pausedAt>>

(* The dimensions whose read end select reported, FD_ISSET of line 231 *)
IsSet(i) == {j \in Edges : connectedPipes[i][2 * j] \in readfds[i]}
ReadChan(i, j) == ChanOfFd(connectedPipes[i][2 * j])
(* The dimensions on which read() returns 0: end of file *)
ShortRead(i) == {j \in IsSet(i) : chan[ReadChan(i, j)] = <<>>}
Min(S) == CHOOSE x \in S : \A y \in S : x <= y
Max(S) == CHOOSE x \in S : \A y \in S : x >= y
(* The dimensions read in this iteration, in increasing order, up to     *)
(* the first short read, which exits                                     *)
Consumed(i) ==
    IF ShortRead(i) = {} THEN IsSet(i)
    ELSE {j \in IsSet(i) : j < Min(ShortRead(i))}
(* Every value read is added to token instead of replacing it. *)
TokenReadAdded(i) ==
    IF Consumed(i) = {} THEN token[i]
    ELSE token[i] + Head(chan[ReadChan(i, Max(Consumed(i)))]).val

(* The reads do not reach token: it keeps the worker's previous value. *)
TokenReadStale(i) == token[i]

(* The value left in token by the reads: each read overwrites it *)
TokenRead(i) ==
    IF Consumed(i) = {} THEN token[i]
    ELSE Head(chan[ReadChan(i, Max(Consumed(i)))]).val
(* The reads leave the tokens in the pipes. *)
DrainedKeep(i) == chan

(* The pipes after the reads: one token taken from each one read *)
Drained(i) ==
    [c \in Chans |->
        IF \E j \in Consumed(i) : ReadChan(i, j) = c
        THEN Tail(chan[c]) ELSE chan[c]]
(* The last read of the iteration *)
LastRead(i) ==
    IF Consumed(i) = {} THEN rcvd
    ELSE LET j == Max(Consumed(i))
             m == Head(chan[ReadChan(i, j)])
         IN [by |-> i, dim |-> j, chan |-> ReadChan(i, j),
             from |-> m.from, fromDim |-> m.dim, val |-> m.val]

(* One iteration of the loop up to the log entry, lines 229-256 *)
ReadTokens(i) ==
    /\ wpc[i] = "read"
    /\ Runs(i)
    /\ chan' = Drained(i)
    /\ rcvd' = LastRead(i)
    /\ unread' = [unread EXCEPT ![i] =
                     unread[i] \/ \E j \in IsSet(i) \ Consumed(i) :
                                     chan[ReadChan(i, j)] # <<>>]
    /\ IF ShortRead(i) # {}
       THEN /\ token' = [token EXCEPT ![i] = TokenRead(i)]
            /\ wpc' = [wpc EXCEPT ![i] = "exited"]
            /\ fds' = [fds EXCEPT ![i] = {}]
            /\ status' = [status EXCEPT ![i] = "EXIT_FAILURE"]
            /\ UNCHANGED <<started, file, order>>
       ELSE /\ TokenRead(i) < MaxToken
            /\ token' = [token EXCEPT ![i] = Incremented(TokenRead(i))]
            /\ started' = [started EXCEPT ![i] = TRUE]
            /\ file' = [file EXCEPT ![i] = Append(file[i],
                          Entry(IF started[i] THEN "entry" ELSE "first",
                                Incremented(TokenRead(i))))]
            /\ order' = Append(order,
                          [id |-> i,
                           kind |-> IF started[i] THEN "entry" ELSE "first",
                           token |-> Incremented(TokenRead(i))])
            /\ wpc' = [wpc EXCEPT ![i] = "write"]
            /\ UNCHANGED <<fds, status>>
    /\ UNCHANGED <<argv, exitStatus, n, coordVars, connectedPipes, readfds,
                   stopped, sigint, toggles, kills, multi, waitSignals,
                   pausedAt>>

(* The token is written to a random neighbour, lines 258-265 *)
WriteToken(i) ==
    /\ wpc[i] = "write"
    /\ Runs(i)
    /\ UNCHANGED <<argv, exitStatus, n, coordVars, connectedPipes, token,
                   readfds, started, file, stopped, sigint, order, toggles,
                   kills, rcvd, multi, waitSignals, unread>>
    /\ \E pipe_index \in Edges : Write(i, pipe_index, token[i])

(* A worker is sent SIGINT from outside the program (the handler's own   *)
(* kill(childs[i], SIGINT) is reached only if SIGINT has the handler)    *)
KillWorker(i) ==
    /\ Alive(i)
    /\ ~sigint[i]
    /\ kills < MaxKills
    /\ sigint' = [sigint EXCEPT ![i] = TRUE]
    /\ kills' = kills + 1
    /\ UNCHANGED <<argv, exitStatus, n, coordVars, workerVars, stopped,
                   chan, order, toggles, rcvd, multi, waitSignals, unread,
                   pausedAt>>

(* A running worker with SIGINT pending terminates: the workers are      *)
(* forked before line 152 and keep the default dispositions              *)
Interrupted(i) ==
    /\ Runs(i)
    /\ sigint[i]
    /\ wpc' = [wpc EXCEPT ![i] = "exited"]
    /\ fds' = [fds EXCEPT ![i] = {}]
    /\ status' = [status EXCEPT ![i] = "SIGINT"]
    /\ UNCHANGED <<argv, exitStatus, n, coordVars, connectedPipes, token, readfds, started,
                   file, stopped, sigint, chan, ghostVars>>

Next ==
    \/ main
    \/ createPipes
    \/ createProcesses
    \/ Fork
    \/ InstallHandler
    \/ ClosePipes
    \/ waitChild
    \/ freeMemory
    \/ \E signum \in {"SIGUSR1", "SIGINT"} : Signal(signum)
    \/ \E i \in Procs : Partition(i)
    \/ \E i \in Procs : PassTokenStart(i)
    \/ \E i \in Procs : Select(i)
    \/ \E i \in Procs : ReadTokens(i)
    \/ \E i \in Procs : WriteToken(i)
    \/ \E i \in Procs : KillWorker(i)
    \/ \E i \in Procs : Interrupted(i)

Spec == Init /\ [][Next]_vars

(* The steps of the coordinator and of worker i that the scheduler runs  *)
(* whenever they can run: neither waits for anything but what its guard  *)
(* names (a stopped worker does not run; waitpid waits for the child).   *)
CoordStep ==
    \/ main
    \/ createPipes
    \/ createProcesses
    \/ Fork
    \/ InstallHandler
    \/ ClosePipes
    \/ waitChild
    \/ freeMemory

WorkerStep(i) ==
    /\ i \in Procs
    /\ \/ Partition(i)
       \/ PassTokenStart(i)
       \/ Select(i)
       \/ ReadTokens(i)
       \/ WriteToken(i)
       \/ Interrupted(i)

(* SIGUSR1 once line 152 has installed the handler *)
Toggle ==
    /\ disposition["SIGUSR1"] = "handler"
    /\ Signal("SIGUSR1")

(* A worker is killed from outside once the coordinator has closed its   *)
(* descriptors and waits.                                                *)
LateKill(i) ==
    /\ coordPc = "waitChild"
    /\ KillWorker(i)

(* The runs in which the coordinator is not terminated from outside and  *)
(* no worker is killed before the coordinator waits.                     *)
FairNext ==
    \/ CoordStep
    \/ Toggle
    \/ \E i \in Procs : WorkerStep(i)
    \/ \E i \in Procs : LateKill(i)

(* Every process that can take a step eventually takes one; the signals  *)
(* from outside are under no obligation.                                 *)
FairSpec ==
    /\ Init
    /\ [][FairNext]_vars
    /\ WF_vars(CoordStep)
    /\ \A i \in 0..(Shl(MaxDim) - 1) : WF_vars(WorkerStep(i))

(* ------------------------------------------------------------------ *)
(* Properties.                                                           *)

Partitioned(i) == wpc[i] \in {"passToken", "select", "read", "write"}
AllPartitioned == \A i \in Procs : Partitioned(i)
NoneTerminated == \A i \in Procs : wpc[i] # "exited"
ReadEnds == {ReadFd(c) : c \in Chans}
WriteEnds == {WriteFd(c) : c \in Chans}

(* C1: createPipes allocates n*2^n distinct channels; once every worker  *)
(* has partitioned and the coordinator holds no channel descriptor,      *)
(* every channel has exactly one process on its read end and one on its  *)
(* write end, and each worker holds n read ends and n write ends.        *)
C1_ExclusiveEndpoints ==
    /\ nbPipes \in {0, n * Shl(n)}
    /\ coordPc \in {"createProcesses", "fork", "closePipes", "waitChild", "done"} =>
          /\ nbPipes = n * Shl(n)
          /\ Cardinality(ReadEnds \cup WriteEnds) = 2 * n * Shl(n)
    /\ coordPc \in {"createProcesses", "fork"} =>
          coordFds = ReadEnds \cup WriteEnds
    /\ (AllPartitioned /\ coordFds = {}) =>
          /\ \A c \in Chans :
                /\ Cardinality(WorkerReaders(c)) = 1
                /\ Cardinality(WorkerWriters(c)) = 1
          /\ \A i \in Procs :
                /\ Cardinality(fds[i] \cap ReadEnds) = n
                /\ Cardinality(fds[i] \cap WriteEnds) = n
          /\ \A i, k \in Procs : i # k => fds[i] \cap fds[k] = {}

C1_Witness ==
    /\ n = 2
    /\ AllPartitioned
    /\ coordPc = "waitChild"
    /\ coordFds = {}

(* The tokens in the system: buffered in a pipe, or held by a worker     *)
(* that has read and logged and is about to write.                       *)
Buffered == UNION {{<<c, k>> : k \in DOMAIN chan[c]} : c \in DOMAIN chan}
Holding == {i \in Procs : wpc[i] = "write"}
TokenCount == Cardinality(Buffered) + Cardinality(Holding)

(* C2: while no worker has terminated there is no token before vertex    *)
(* 0's seed and exactly one after it, in a pipe or held by a worker.     *)
C2_SingleToken ==
    NoneTerminated =>
        /\ TokenCount = (IF order = <<>> THEN 0 ELSE 1)
        /\ order # <<>> => order[1].id = 0 /\ order[1].kind = "seed"

C2_Witness ==
    /\ NoneTerminated
    /\ Len(order) >= 3
    /\ Holding # {}

(* C3: the neighbour of v along j is v XOR (1<<j), a symmetric relation  *)
(* that changes exactly bit j; a token written by v along j is received  *)
(* by that neighbour, along j; consecutive holders differ in one bit.    *)
C3_NeighbourRouting ==
    /\ \A v \in Procs : \A j \in Edges :
          /\ neighbour(v, j) \in Procs
          /\ neighbour(neighbour(v, j), j) = v
          /\ Xor(v, neighbour(v, j)) = Shl(j)
    /\ rcvd.by # -1 =>
          /\ rcvd.by = Xor(rcvd.from, Shl(rcvd.fromDim))
          /\ rcvd.dim = rcvd.fromDim
    /\ \A c \in DOMAIN chan : \A k \in DOMAIN chan[c] :
          \A i \in Procs :
             (Partitioned(i) /\ ReadFd(c) \in setReadfds(i)) =>
                 i = Xor(chan[c][k].from, Shl(chan[c][k].dim))
    /\ \A k \in 1..(Len(order) - 1) :
          BitCount(Xor(order[k].id, order[k + 1].id)) = 1

C3_Witness ==
    /\ n = 2
    /\ Len(order) >= 3
    /\ rcvd.by = 3

(* C4: the pause flag starts clear; after k handled toggles the flag is  *)
(* set iff k is odd and every live worker is stopped iff k is odd.       *)
Paused == n_sigusr1 = 0

C4_ToggleParity ==
    /\ Paused <=> (toggles % 2 = 1)
    /\ \A i \in Procs : Alive(i) => (stopped[i] <=> (toggles % 2 = 1))
    /\ (toggles > 0 /\ CoordAlive) => \A i \in Procs : Registered(i)

C4_Witness ==
    /\ toggles = 2
    /\ ~Paused
    /\ \A i \in Procs : Alive(i) /\ ~stopped[i]

(* C5: once the workers are spawned a handler is installed for SIGINT,   *)
(* and when the coordinator is gone after that, no worker is left        *)
(* running without an interrupt sent to it.                              *)
C5_TerminateBroadcast ==
    /\ coordPc \in {"closePipes", "waitChild"} =>
          disposition["SIGINT"] = "handler"
    /\ (coordPc \in {"killed", "done"} /\ disposition["SIGUSR1"] = "handler") =>
          \A i \in Procs : Alive(i) => sigint[i]

(* C6: the coordinator frees the topology and exits only when every      *)
(* worker has exited, and waitChild passes child i only when child i     *)
(* has exited, whatever signals the handler served during the wait.      *)
C6_WaitAll ==
    /\ coordPc = "done" => \A i \in Procs : wpc[i] = "exited"
    /\ coordPc = "waitChild" =>
          \A k \in 0..(loopI - 1) : wpc[childs[k]] = "exited"

C6_Witness ==
    /\ coordPc = "done"
    /\ waitSignals = 2
    /\ n = 2

(* Consecutive entries of one worker's log. *)
LogSteps(i) == {file[i][k + 1].token - file[i][k].token :
                    k \in 1..(Len(file[i]) - 1)}

(* C7 as stated: in a worker's log the token values never decrease, and  *)
(* a worker that never saw several read ends ready logs values that go   *)
(* up by exactly 1 from one entry to the next.                           *)
C7_StepsOfOne ==
    \A i \in Procs :
        /\ \A d \in LogSteps(i) : d >= 0
        /\ ~multi[i] => \A d \in LogSteps(i) : d = 1

(* C7 amended: in a worker's log the token values strictly increase, by  *)
(* at least 2 from one entry to the next.                                *)
C7_StepsOfTwoOrMore ==
    \A i \in Procs : \A d \in LogSteps(i) : d >= 2

C7_Witness ==
    \E i \in Procs : Len(file[i]) >= 2 /\ ~multi[i]

(* C8: at most one seed entry exists, it is vertex 0's and the first     *)
(* entry logged by anyone, and it exists once vertex 0 is in its loop;   *)
(* another vertex's log starts with a "first received" entry; every      *)
(* later entry of any log is a (token, elapsed) entry.                   *)
C8_LogShape ==
    /\ \A k \in DOMAIN order :
          order[k].kind = "seed" <=> k = 1
    /\ order # <<>> => order[1].id = 0
    /\ (0 \in Procs /\ wpc[0] \in {"select", "read", "write"}) => order # <<>>
    /\ \A v \in Procs : \A k \in DOMAIN file[v] :
          file[v][k].kind =
              IF k > 1 THEN "entry" ELSE IF v = 0 THEN "seed" ELSE "first"

C8_Witness ==
    /\ 0 \in Procs
    /\ Len(file[0]) >= 2
    /\ \E v \in Procs : v # 0 /\ Len(file[v]) >= 2

(* The channel worker v writes to, and reads from, along dimension j. *)
SendChan(v, j) == ChanOfFd(connectedPipes[v][2 * j + 1])
RecvChan(v, j) == ChanOfFd(connectedPipes[v][2 * j])

(* C9 as stated: worker v sends along edge j on channel v*n+j and        *)
(* receives along edge j on channel neighbour*n+j.                       *)
C9_SendOnOwnIndex ==
    /\ \A v \in Procs : Partitioned(v) =>
          \A j \in Edges :
             /\ SendChan(v, j) = v * n + j
             /\ RecvChan(v, j) = Xor(v, Shl(j)) * n + j
    /\ \A c \in DOMAIN chan : \A k \in DOMAIN chan[c] :
          c = chan[c][k].from * n + chan[c][k].dim
    /\ rcvd.by # -1 => rcvd.chan = Xor(rcvd.by, Shl(rcvd.dim)) * n + rcvd.dim

(* C9 amended: worker v receives along edge j on channel v*n+j and      *)
(* sends along edge j on channel neighbour*n+j.                          *)
C9_ReceiveOnOwnIndex ==
    /\ \A v \in Procs : Partitioned(v) =>
          \A j \in Edges :
             /\ RecvChan(v, j) = v * n + j
             /\ connectedPipes[v][2 * j] = ReadFd(v * n + j)
             /\ SendChan(v, j) = Xor(v, Shl(j)) * n + j
             /\ connectedPipes[v][2 * j + 1] = WriteFd(Xor(v, Shl(j)) * n + j)
    /\ \A c \in DOMAIN chan : \A k \in DOMAIN chan[c] :
          c = Xor(chan[c][k].from, Shl(chan[c][k].dim)) * n + chan[c][k].dim
    /\ rcvd.by # -1 => rcvd.chan = rcvd.by * n + rcvd.dim

C9_Witness ==
    /\ n = 2
    /\ rcvd.by = 2
    /\ \E c \in DOMAIN chan : chan[c] # <<>> /\ chan[c][1].from = 2

(* C10: a worker that enters passToken has exactly these descriptors of  *)
(* the table open: the read end of channel v*n+j and the write end of    *)
(* channel (v XOR (1<<j))*n+j, for each dimension j.                     *)
C10_OpenDescriptors ==
    \A v \in Procs :
        wpc[v] = "passToken" =>
            fds[v] = {ReadFd(v * n + j) : j \in Edges}
                        \cup {WriteFd(Xor(v, Shl(j)) * n + j) : j \in Edges}

C10_Witness ==
    /\ n = 2
    /\ wpc[1] = "passToken"
    /\ wpc[3] = "select"
    /\ wpc[2] = "forked"

(* C11: with n = 1 vertex 0 seeds the value 1 and sends it to vertex 1,  *)
(* whose first entry is "first received" with 2; after that the entries  *)
(* alternate between the two vertices, each one more than the one        *)
(* before, and while no worker has terminated the token is held by the   *)
(* last vertex that logged or buffered towards the other one.            *)
C11_PingPong ==
    n = 1 =>
        /\ \A k \in DOMAIN order :
              /\ order[k].token = k
              /\ order[k].id = (k + 1) % 2
              /\ order[k].kind =
                    IF k = 1 THEN "seed" ELSE IF k = 2 THEN "first" ELSE "entry"
        /\ (NoneTerminated /\ order # <<>>) =>
              LET last == order[Len(order)].id IN
              \/ wpc[last] = "write" /\ token[last] = Len(order)
              \/ /\ wpc[last] \in {"select", "read"}
                 /\ chan[SendChan(last, 0)] = <<Msg(Len(order), last, 0)>>

C11_Witness ==
    /\ n = 1
    /\ NoneTerminated
    /\ Len(order) = 4
    /\ order[2] = [id |-> 1, kind |-> "first", token |-> 2]
    /\ wpc[1] = "select"

(* C15: the entries of all logs in the order they were written carry    *)
(* the values 1, 2, 3, ...: the k-th entry logged by anyone has value k, *)
(* so no value is skipped and none is logged twice.                      *)
C15_GlobalSequence ==
    /\ \A k \in DOMAIN order : order[k].token = k
    /\ \A v \in Procs : \A k \in DOMAIN file[v] :
          \E m \in DOMAIN order :
             order[m].id = v /\ order[m].token = file[v][k].token
    /\ \A v, w \in Procs : \A k \in DOMAIN file[v] : \A m \in DOMAIN file[w] :
          file[v][k].token = file[w][m].token => (v = w /\ k = m)

C15_Witness ==
    /\ n = 2
    /\ Len(order) = 4
    /\ Cardinality({order[k].id : k \in DOMAIN order}) >= 3

(* C12: when the command line is not exactly one non-negative integer    *)
(* (no argument, several arguments, or an argument with a character      *)
(* that is not a digit), no pipe is created, no worker is forked and     *)
(* the program ends with a non-zero status.                              *)
UsageError == ~(Len(argv) = 1 /\ IsNumeral(argv[1]))

C12_UsageError ==
    UsageError =>
        /\ nbPipes = 0
        /\ coordFds = {}
        /\ \A i \in Procs : wpc[i] = "unborn"
        /\ coordPc = "done" => exitStatus # 0

(* C13 as stated: a worker reads a value from every read end that select *)
(* reported ready with a token in it, in the iteration of that select.   *)
C13_ReadsEveryReadyEnd ==
    \A i \in Procs : ~unread[i]

(* The read ends of worker i that are ready, and those at end of file. *)
ReadyDims(i) == {j \in Edges : Ready(connectedPipes[i][2 * j])}
AtEof(i) == {j \in ReadyDims(i) : chan[ReadChan(i, j)] = <<>>}

(* C13 amended: an iteration that ends with a log entry found exactly    *)
(* one read end ready, read one value v from it and logged v + 1: one    *)
(* increment.  When several read ends are ready at least one is at end   *)
(* of file; the worker reads the ready ends in increasing dimension up   *)
(* to the first one at end of file and exits there with failure, logs    *)
(* nothing and leaves the ready ends after it unread.                    *)
C13_OneIncrementPerIteration ==
    [][\A i \in Procs :
          /\ (wpc[i] = "read" /\ wpc'[i] = "write") =>
                /\ Cardinality(IsSet(i)) = 1
                /\ \A j \in IsSet(i) :
                      /\ chan[ReadChan(i, j)] # <<>>
                      /\ chan'[ReadChan(i, j)] = Tail(chan[ReadChan(i, j)])
                      /\ token'[i] = Head(chan[ReadChan(i, j)]).val + 1
                      /\ order' = Append(order,
                            [id |-> i, kind |-> order'[Len(order')].kind,
                             token |-> Head(chan[ReadChan(i, j)]).val + 1])
          /\ (wpc[i] = "select" /\ wpc'[i] = "read"
                 /\ Cardinality(ReadyDims(i)) > 1) => AtEof(i) # {}
          /\ (wpc[i] = "read" /\ status'[i] = "EXIT_FAILURE") =>
                /\ ShortRead(i) # {}
                /\ order' = order
                /\ \A j \in IsSet(i) :
                      chan'[ReadChan(i, j)] =
                          IF j < Min(ShortRead(i))
                          THEN Tail(chan[ReadChan(i, j)])
                          ELSE chan[ReadChan(i, j)]]_vars

C13_Witness ==
    \E i \in Procs :
        /\ multi[i]
        /\ unread[i]
        /\ status[i] = "EXIT_FAILURE"
        /\ file[i] # <<>>

(* A pipe holds 65536 bytes; a token is an int of 4 bytes. *)
PipeCapacity == 65536
TokenBytes == 4

(* Every worker is blocked in select and no token is buffered or held. *)
AllWaitNoToken ==
    /\ Procs # {}
    /\ \A i \in Procs : wpc[i] = "select"
    /\ TokenCount = 0

(* C14: every process taking its steps, in a run where no worker         *)
(* terminates, the coordinator is not killed and the system does not     *)
(* stay paused, the token keeps being forwarded (up to the bound of the  *)
(* exploration); while no worker has terminated the workers are never    *)
(* all blocked in select with no token anywhere, and a pipe never holds  *)
(* more than one token, so a write finds room and does not block.        *)
C14_TokenKeepsMoving ==
    /\ [](NoneTerminated => ~AllWaitNoToken)
    /\ [](\A c \in DOMAIN chan :
            Len(chan[c]) <= 1 /\ Len(chan[c]) * TokenBytes <= PipeCapacity)
    /\ ([]NoneTerminated /\ []CoordAlive /\ <>[]~Paused)
          => <>(Len(order) >= MaxToken)

C14_Witness ==
    /\ n = 2
    /\ NoneTerminated
    /\ CoordAlive
    /\ toggles = 2
    /\ ~Paused
    /\ Len(order) = MaxToken
    /\ \E i \in Procs : wpc[i] = "write"

(* The vertex a buffered token is on its way to. *)
Destination(m) == neighbour(m.from, m.dim)

(* A token is buffered for vertex v, which is not forked yet. *)
EarlyToken(v) ==
    /\ v \in Procs
    /\ wpc[v] = "unborn"
    /\ \E c \in DOMAIN chan :
          /\ chan[c] # <<>>
          /\ Destination(Head(chan[c])) = v

(* A token below the bound is buffered in some pipe. *)
InFlight ==
    \E c \in DOMAIN chan : chan[c] # <<>> /\ Head(chan[c]).val < MaxToken

(* C16: the coordinator holds both ends of every pipe until it has       *)
(* forked all 2^n workers; while no worker has terminated every read end *)
(* a worker waits on has its write end open somewhere, so no read finds  *)
(* end of file; a buffered token leaves its pipe only when the vertex it *)
(* was written for reads it; and, every process taking its steps, a      *)
(* buffered token, written before its vertex was forked or after, does   *)
(* leave its pipe.                                                       *)
C16_SpawnRace ==
    /\ [](coordPc \in {"createProcesses", "fork", "closePipes"} =>
            coordFds = ReadEnds \cup WriteEnds)
    /\ [](NoneTerminated =>
            \A i \in Procs :
               /\ Partitioned(i) =>
                     \A f \in setReadfds(i) : HasWriter(ChanOfFd(f))
               /\ wpc[i] = "read" => ShortRead(i) = {})
    /\ [][\A c \in DOMAIN chan :
             (chan[c] # <<>> /\ chan'[c] # chan[c]) =>
                 /\ chan'[c] = Tail(chan[c])
                 /\ wpc[Destination(Head(chan[c]))] = "read"
                 /\ rcvd'.by = Destination(Head(chan[c]))
                 /\ rcvd'.val = Head(chan[c]).val]_vars
    /\ ([]NoneTerminated /\ <>[]~Paused) => [](InFlight => <>~InFlight)

C16_Witness ==
    /\ n = 2
    /\ coordPc = "fork"
    /\ EarlyToken(3)
    /\ chan[3 * n + 1] # <<>>
    /\ Head(chan[3 * n + 1]).val = 2

AllExited == \A i \in Procs : wpc[i] = "exited"

(* A worker has selected a token at the bound of the exploration. *)
AtBound ==
    \E i \in Procs :
        wpc[i] = "read" /\ ShortRead(i) = {} /\ TokenRead(i) >= MaxToken

(* C17 as stated: once the coordinator waits, a worker that terminates   *)
(* without having been killed from outside has exited with failure on a  *)
(* short read.                                                           *)
C17_OthersExitOnShortRead ==
    /\ Cardinality({i \in Procs : status[i] = "SIGINT"}) <= kills
    /\ \A i \in Procs :
          wpc[i] = "exited" => status[i] \in {"SIGINT", "EXIT_FAILURE"}

(* C17 amended: once the coordinator has closed its descriptors and      *)
(* waits, if a worker terminates and the system does not stay paused,    *)
(* every other worker terminates too, by a short read at end of file or  *)
(* by SIGPIPE when it writes the token to a terminated neighbour, and    *)
(* the coordinator reaps them all and exits with status 0.               *)
C17_TerminationSpreads ==
    /\ [](/\ Cardinality({i \in Procs : status[i] = "SIGINT"}) <= kills
          /\ \A i \in Procs :
                wpc[i] = "exited" =>
                    status[i] \in {"SIGINT", "EXIT_FAILURE", "SIGPIPE"})
    /\ [](coordPc = "done" /\ Procs # {} => AllExited /\ exitStatus = 0)
    /\ <>[]~Paused =>
          []((coordPc = "waitChild" /\ ~NoneTerminated) =>
                <>((AllExited /\ coordPc = "done") \/ AtBound))

C17_Witness ==
    /\ n = 2
    /\ kills = 1
    /\ coordPc = "done"
    /\ exitStatus = 0
    /\ \E i \in Procs : status[i] = "SIGPIPE"
    /\ \E i \in Procs : status[i] = "EXIT_FAILURE"

(* C18: from the suspending handler to the resuming one no log entry is  *)
(* appended and no pipe, no worker's token, position or log changes, the *)
(* resuming handler included; the log is as long as it was at the pause; *)
(* while no worker has terminated there is still exactly one token; and  *)
(* the first entry logged after the pause carries the value of the last  *)
(* entry before it plus one.                                             *)
C18_PauseKeepsToken ==
    /\ [][(Paused \/ Paused') =>
             /\ order' = order
             /\ chan' = chan
             /\ token' = token
             /\ wpc' = wpc
             /\ file' = file]_vars
    /\ [](Paused => Len(order) = pausedAt)
    /\ []((Paused /\ NoneTerminated /\ order # <<>>) => TokenCount = 1)
    /\ []((pausedAt >= 1 /\ Len(order) > pausedAt) =>
             /\ Len(order) = pausedAt + 1
             /\ order[pausedAt + 1].token = order[pausedAt].token + 1)

C18_Witness ==
    /\ n = 2
    /\ toggles = 2
    /\ ~Paused
    /\ NoneTerminated
    /\ pausedAt = 2
    /\ Len(order) = 3
    /\ order[3].token = 3

====
